---- MODULE Spec2Model ----
(***************************************************************************)
(* Wallet monitor (src/src/wallet_monitor.rs): the position ledger         *)
(* (holdings), the alert dedup set (alerted_mints), the two tokio mutexes  *)
(* that guard them, the consumer task (the message loop of                 *)
(* start_monitoring with update_holdings / update_price /                  *)
(* check_and_send_alert) and the periodic task (print_holdings on a fresh  *)
(* WalletMonitor every tick).                                              *)
(*                                                                         *)
(* Numbers.  An f64 is modelled as an extended rational [n, d]: d > 0 is a *)
(* finite value n/d in lowest terms, [1,0] and [-1,0] are the infinities   *)
(* and [0,0] is NaN; rounding is not modelled.  A u64 token amount is      *)
(* counted in lots of LotSize display tokens (LotSize * 10^TOKEN_DECIMALS  *)
(* raw units), a u64 lamport amount in whole SOL (10^SOL_DECIMALS          *)
(* lamports), so that every value fits the model checker's integers; in    *)
(* SpecGrain it is counted in grains of GrainSize raw units instead, and   *)
(* in SpecWide it has its full width.                                      *)
(*                                                                         *)
(* Specifications.  Spec is the program on a stream in which the watched   *)
(* wallet buys at one price; SpecLedger is the consumer task alone on a    *)
(* stream in which the watched wallet trades at every price, within a      *)
(* budget of trades; SpecDecode is the scan of the log lines at the level  *)
(* of their payload texts (base64, the byte layout, the raw amounts);      *)
(* SpecStream is Spec on a stream that can end (Close, error, end of       *)
(* stream, failed Pong); SpecGrain is Spec on trades of a few thousand raw *)
(* units; SpecWide is the two amount updates of update_holdings on 64-bit  *)
(* operands.                                                               *)
(***************************************************************************)
EXTENDS Integers, Sequences, FiniteSets, TLC

(* ---- program constants ------------------------------------------------ *)
MIN_HOLDING_AMOUNT == 10000
TOKEN_DECIMALS == 6
ALERT_THRESHOLD == 100

(* ---- bounds of the model ---------------------------------------------- *)
MaxAmount == 2
MaxTrade == 2
MaxPrice == 3
MaxLogs == 2
MaxCount == 2
MaxPosition == 4
MaxOwnTrades == 3
MaxExtra == 1
MaxNear == 2

Mints == {"T1", "T2"}

(* The events of the stream, as (size in lots, price in SOL per LotSize     *)
(* tokens); the lamport amount of an event is size * price.  T1 is traded  *)
(* in every size; T2 is the other token, traded only in whole positions.   *)
(* The watched wallet buys at price 1 only: with a second buy price the    *)
(* proportional sells generate an unbounded set of total_cost values.      *)
Sizes(mint) == IF mint = "T1" THEN 0..MaxTrade ELSE {MaxTrade}
BuyPrices(mint) == {1}
SellPrices(mint) == IF mint = "T1" THEN {1, MaxPrice} ELSE {1}
OtherPrices(mint) == IF mint = "T1" THEN 0..MaxPrice ELSE {1, MaxPrice}

(* display tokens in one lot: half of the minimum holding amount, so that  *)
(* one lot is a position the raw comparison keeps and the display          *)
(* comparison removes                                                      *)
LotSize == MIN_HOLDING_AMOUNT \div 2

(* raw units in one grain: half of the minimum holding amount, so that one *)
(* grain is a position the raw comparison removes and two grains are one   *)
(* it keeps                                                                *)
GrainSize == MIN_HOLDING_AMOUNT \div 2

(* what the amounts of a behaviour are counted in: "lot" (LotSize display  *)
(* tokens) or "grain" (GrainSize raw units); fixed by the initial state    *)
VARIABLE unit

(* ---- f64 as extended rationals ---------------------------------------- *)
Abs(i) == IF i < 0 THEN -i ELSE i

RECURSIVE GCD(_, _)
GCD(a, b) == IF b = 0 THEN a ELSE GCD(b, a % b)

NaN == [n |-> 0, d |-> 0]
PosInf == [n |-> 1, d |-> 0]
NegInf == [n |-> -1, d |-> 0]

F(n, d) ==
    IF d = 0 THEN [n |-> (IF n > 0 THEN 1 ELSE IF n < 0 THEN -1 ELSE 0), d |-> 0]
    ELSE LET s == IF d < 0 THEN -1 ELSE 1
             g == GCD(Abs(n), Abs(d))
         IN  [n |-> (s * n) \div g, d |-> (s * d) \div g]

FromInt(i) == [n |-> i, d |-> 1]
Zero == FromInt(0)

IsNaN(x) == x.d = 0 /\ x.n = 0
IsInf(x) == x.d = 0 /\ x.n # 0
IsZero(x) == x.d # 0 /\ x.n = 0
Sign(x) == IF x.n > 0 THEN 1 ELSE IF x.n < 0 THEN -1 ELSE 0

FNeg(x) == [n |-> -x.n, d |-> x.d]

FAdd(x, y) ==
    IF IsNaN(x) \/ IsNaN(y) THEN NaN
    ELSE IF IsInf(x) /\ IsInf(y) THEN (IF x.n = y.n THEN x ELSE NaN)
    ELSE IF IsInf(x) THEN x
    ELSE IF IsInf(y) THEN y
    ELSE F(x.n * y.d + y.n * x.d, x.d * y.d)

FSub(x, y) == FAdd(x, FNeg(y))

FMul(x, y) ==
    IF IsNaN(x) \/ IsNaN(y) THEN NaN
    ELSE IF IsInf(x) \/ IsInf(y)
         THEN (IF IsZero(x) \/ IsZero(y) THEN NaN ELSE F(Sign(x) * Sign(y), 0))
    ELSE LET g1 == GCD(Abs(x.n), y.d)
             g2 == GCD(Abs(y.n), x.d)
         IN  F((x.n \div g1) * (y.n \div g2), (x.d \div g2) * (y.d \div g1))

FDiv(x, y) ==
    IF IsNaN(x) \/ IsNaN(y) THEN NaN
    ELSE IF IsInf(y) THEN (IF IsInf(x) THEN NaN ELSE Zero)
    ELSE IF IsInf(x) THEN F(Sign(x) * (IF y.n < 0 THEN -1 ELSE 1), 0)
    ELSE IF IsZero(y) THEN (IF IsZero(x) THEN NaN ELSE F(Sign(x), 0))
    ELSE FMul(x, F(y.d, y.n))

FEq(x, y) == ~IsNaN(x) /\ ~IsNaN(y) /\ x = y

FLt(x, y) ==
    /\ ~IsNaN(x)
    /\ ~IsNaN(y)
    /\ x # y
    /\ IF IsInf(x) THEN x.n < 0
       ELSE IF IsInf(y) THEN y.n > 0
       ELSE x.n * y.d < y.n * x.d

(* `as i32`: NaN is 0, out-of-range saturates, otherwise truncation toward *)
(* zero                                                                    *)
AsI32(x) ==
    IF IsNaN(x) THEN 0
    ELSE IF IsInf(x) THEN (IF x.n > 0 THEN 2147483647 ELSE -2147483647 - 1)
    ELSE IF x.n >= 0 THEN x.n \div x.d
    ELSE -((-x.n) \div x.d)

RECURSIVE Pow10(_)
Pow10(k) == IF k = 0 THEN 1 ELSE 10 * Pow10(k - 1)

(* `(amount as f64) / 10f64.powi(TOKEN_DECIMALS)` and `amount as f64 / 1e6` *)
(* of an amount counted in lots                                            *)
ActualAmount(lots) ==
    IF unit = "lot" THEN FromInt(lots * LotSize)
    ELSE F(lots * GrainSize, Pow10(TOKEN_DECIMALS))

(* `amount < m` on the raw u64: lots * LotSize * 10^TOKEN_DECIMALS < m     *)
RawLess(lots, m) ==
    IF unit = "lot"
    THEN lots * LotSize < (m + Pow10(TOKEN_DECIMALS) - 1) \div Pow10(TOKEN_DECIMALS)
    ELSE lots * GrainSize < m

(* ---- TokenHolding ------------------------------------------------------ *)
NoHolding == [absent |-> TRUE]

(* mutant: the average is taken over the raw amount *)
avg_price_Raw(h) ==
    IF h.amount = 0 THEN Zero
    ELSE FDiv(h.total_cost, FromInt(h.amount))

TokenHolding_new(amount, price) ==
    [amount |-> amount,
     total_cost |-> FMul(ActualAmount(amount), price),
     current_price |-> price]

avg_price(h) ==
    IF h.amount = 0 THEN Zero
    ELSE FDiv(h.total_cost, ActualAmount(h.amount))

price_change_percentage(h) ==
    IF FEq(avg_price(h), Zero) THEN 0
    ELSE AsI32(FMul(FDiv(FSub(h.current_price, avg_price(h)), avg_price(h)),
                    FromInt(100)))

(* calculate_price on a lamport amount in whole SOL and a token amount in  *)
(* lots                                                                    *)
calculate_price(sol_amount, token_amount) ==
    IF token_amount = 0 THEN Zero
    ELSE FDiv(FromInt(sol_amount), ActualAmount(token_amount))

(* ---- decode_program_data -------------------------------------------------- *)
(* A text is a sequence of characters: a character of the standard base64   *)
(* alphabet is written as its 6-bit value (0..63), PadChar is '=' and       *)
(* BadChar is a character outside the alphabet.  A byte is 0..255.  A       *)
(* base58 string is the sequence of its digits' values (0 is '1').          *)
PadChar == 64
BadChar == 65
MIN_EVENT_LEN == 129
SOL_DECIMALS == 9

B64Err == [ok |-> FALSE]
None == [none |-> TRUE]

(* mutant: missing padding is accepted *)
Base64Decode_NoPadding(text) ==
    LET data == SelectSeq(text, LAMBDA c : c # PadChar)
        n == Len(data)
        m == (n * 3) \div 4
        Sextet(j) == IF j <= n THEN data[j] ELSE 0
        Byte(i) ==
            LET g == (i - 1) \div 3
                k == (i - 1) % 3
            IN  IF k = 0 THEN Sextet(4 * g + 1) * 4 + Sextet(4 * g + 2) \div 16
                ELSE IF k = 1
                THEN (Sextet(4 * g + 2) % 16) * 16 + Sextet(4 * g + 3) \div 4
                ELSE (Sextet(4 * g + 3) % 4) * 64 + Sextet(4 * g + 4)
    IN  IF \E i \in 1..n : data[i] = BadChar THEN B64Err
        ELSE IF n % 4 = 1 THEN B64Err
        ELSE [ok |-> TRUE, bytes |-> [i \in 1..m |-> Byte(i)]]

(* general_purpose::STANDARD.decode: the standard alphabet, canonical       *)
(* padding required, no nonzero trailing bits                               *)
Base64Decode(text) ==
    LET n == Len(text)
        pads == IF n >= 1 /\ text[n] = PadChar
                THEN (IF n >= 2 /\ text[n - 1] = PadChar THEN 2 ELSE 1)
                ELSE 0
        m == 3 * (n \div 4) - pads
        Sextet(j) == IF text[j] = PadChar THEN 0 ELSE text[j]
        Byte(i) ==
            LET g == (i - 1) \div 3
                k == (i - 1) % 3
            IN  IF k = 0 THEN Sextet(4 * g + 1) * 4 + Sextet(4 * g + 2) \div 16
                ELSE IF k = 1
                THEN (Sextet(4 * g + 2) % 16) * 16 + Sextet(4 * g + 3) \div 4
                ELSE (Sextet(4 * g + 3) % 4) * 64 + Sextet(4 * g + 4)
    IN  IF \E i \in 1..(n - pads) : text[i] \notin 0..63 THEN B64Err
        ELSE IF n % 4 # 0 THEN B64Err
        ELSE IF pads = 1 /\ text[n - 1] % 4 # 0 THEN B64Err
        ELSE IF pads = 2 /\ text[n - 2] % 16 # 0 THEN B64Err
        ELSE [ok |-> TRUE, bytes |-> [i \in 1..m |-> Byte(i)]]

(* bs58::encode(bytes).into_string(): one digit 0 per leading zero byte,    *)
(* then the digits of the big-endian number in base 58                      *)
RECURSIVE LongDiv58(_, _, _, _)
LongDiv58(num, i, rem, quot) ==
    IF i > Len(num) THEN [q |-> quot, r |-> rem]
    ELSE LET cur == rem * 256 + num[i]
         IN  LongDiv58(num, i + 1, cur % 58, Append(quot, cur \div 58))

RECURSIVE StripZeros(_)
StripZeros(num) ==
    IF num = <<>> \/ num[1] # 0 THEN num ELSE StripZeros(Tail(num))

RECURSIVE ToBase58(_)
ToBase58(num) ==
    IF num = <<>> THEN <<>>
    ELSE LET d == LongDiv58(num, 1, 0, <<>>)
         IN  Append(ToBase58(StripZeros(d.q)), d.r)

bs58_encode(bytes) ==
    LET rest == StripZeros(bytes)
    IN  [i \in 1..(Len(bytes) - Len(rest)) |-> 0] \o ToBase58(rest)

(* u64::from_le_bytes *)
RECURSIVE from_le_bytes(_)
from_le_bytes(bytes) ==
    IF bytes = <<>> THEN 0 ELSE bytes[1] + 256 * from_le_bytes(Tail(bytes))

(* mutant: a payload of 128 bytes is accepted *)
decode_program_data_Min128(data_str) ==
    LET r == Base64Decode(data_str)
    IN  IF ~r.ok THEN None
        ELSE IF Len(r.bytes) < MIN_EVENT_LEN - 1 THEN None
        ELSE LET decoded_data == r.bytes
             IN  [mint |-> bs58_encode(SubSeq(decoded_data, 9, 40)),
                  user |-> bs58_encode(SubSeq(decoded_data, 58, 89)),
                  is_buy |-> decoded_data[57] # 0,
                  sol_amount |-> from_le_bytes(SubSeq(decoded_data, 41, 48)),
                  token_amount |-> from_le_bytes(SubSeq(decoded_data, 49, 56))]

(* decode_program_data: None, or (mint, user, is_buy, sol_amount,           *)
(* token_amount); the bytes of the source's decoded_data[a..b] are          *)
(* SubSeq(decoded_data, a + 1, b)                                           *)
decode_program_data(data_str) ==
    LET r == Base64Decode(data_str)
    IN  IF ~r.ok THEN None
        ELSE IF Len(r.bytes) < MIN_EVENT_LEN THEN None
        ELSE LET decoded_data == r.bytes
             IN  [mint |-> bs58_encode(SubSeq(decoded_data, 9, 40)),
                  user |-> bs58_encode(SubSeq(decoded_data, 58, 89)),
                  is_buy |-> decoded_data[57] # 0,
                  sol_amount |-> from_le_bytes(SubSeq(decoded_data, 41, 48)),
                  token_amount |-> from_le_bytes(SubSeq(decoded_data, 49, 56))]

(* mutant: the quotient of the raw amounts *)
calculate_price_u64_NoScale(sol_amount, token_amount) ==
    IF token_amount = 0 THEN Zero
    ELSE FDiv(FromInt(sol_amount), FromInt(token_amount))

(* calculate_price on the raw u64 amounts (lamports and token units) *)
calculate_price_u64(sol_amount, token_amount) ==
    IF token_amount = 0 THEN Zero
    ELSE LET sol == FDiv(FromInt(sol_amount), FromInt(Pow10(SOL_DECIMALS)))
             tokens == FDiv(FromInt(token_amount), FromInt(Pow10(TOKEN_DECIMALS)))
         IN  FDiv(sol, tokens)

(* ---- state -------------------------------------------------------------- *)
VARIABLES
    holdings,        \* self.holdings: mint -> TokenHolding or NoHolding
    alerted_mints,   \* self.alerted_mints of the consumer's WalletMonitor
    holdings_lock,   \* owner of the holdings mutex: "free", "consumer", "periodic"
    alerted_lock,    \* owner of the consumer's alerted_mints mutex
    pc,              \* position of the consumer task
    scanned,         \* log lines of the current notification already scanned
    own,             \* found_target_wallet and the own trade recorded by the scan
    call,            \* arguments of the running update_holdings / update_price
    tick_pc,         \* position of the periodic task
    tick_alerted,    \* alerted_mints of the WalletMonitor built by the tick
    tick_lock,       \* owner of that WalletMonitor's alerted_mints mutex
    posAlerts,       \* history: send_alert calls for a mint since its position opened
    posOk,           \* history: send_alert calls that returned Ok, likewise
    oversold,        \* history: the running update_holdings is a sell of more
                     \* than the holding's amount
    trades,          \* own trades taken from the freely priced stream so far
    ownSeen,         \* history of the freely priced stream: the last decoded
                     \* event of the watched wallet in the log lines scanned so
                     \* far, and whether it came after a different one
    data_str,        \* the payload text of the log line being scanned
    decoded,         \* what decode_program_data returned for it
    trade_price,     \* calculate_price of the decoded amounts
    wire,            \* history: the bytes the sender encoded into data_str, the
                     \* two amounts among them, and whether the text was damaged
    ended,           \* how the message loop of start_monitoring was left
    result,          \* what start_monitoring returned to its caller
    wide             \* a u64 operation on full-width operands and its result

vars == <<holdings, alerted_mints, holdings_lock, alerted_lock, pc, scanned, own,
          call, tick_pc, tick_alerted, tick_lock, posAlerts, posOk, oversold,
          trades, ownSeen, data_str, decoded, trade_price, wire, ended, result,
          unit, wide>>

program == <<holdings, alerted_mints, holdings_lock, alerted_lock>>
history == <<posAlerts, posOk, oversold, trades, ownSeen>>
tick == <<tick_pc, tick_alerted, tick_lock>>
line == <<data_str, decoded, trade_price, wire>>
outer == <<ended, result, unit, wide>>

NoOwn == [found |-> FALSE, mint |-> "", is_buy |-> FALSE, token_amount |-> 0,
          price |-> Zero]
NoCall == [mint |-> "", is_buy |-> FALSE, token_amount |-> 0, price |-> Zero]
NoneSeen == [last |-> None, replaced |-> FALSE]
NoWire == [bytes |-> <<>>, damaged |-> FALSE, sol_amount |-> 0, token_amount |-> 0]
NoWide == [op |-> "none"]

Held(m) == holdings[m] # NoHolding
AmountOf(m) == IF Held(m) THEN holdings[m].amount ELSE 0
Bump(c) == IF c < MaxCount THEN c + 1 ELSE c

(* history bookkeeping shared by every path that removes positions *)
Forget(f, removed) == [m \in Mints |-> IF m \in removed THEN 0 ELSE f[m]]

Start ==
    /\ holdings = [m \in Mints |-> NoHolding]
    /\ alerted_mints = {}
    /\ holdings_lock = "free"
    /\ alerted_lock = "free"
    /\ pc = "idle"
    /\ scanned = 0
    /\ own = NoOwn
    /\ call = NoCall
    /\ tick_pc = "sleep"
    /\ tick_alerted = {}
    /\ tick_lock = "free"
    /\ posAlerts = [m \in Mints |-> 0]
    /\ posOk = [m \in Mints |-> 0]
    /\ oversold = FALSE
    /\ trades = 0
    /\ ownSeen = NoneSeen
    /\ data_str = <<>>
    /\ decoded = None
    /\ trade_price = Zero
    /\ wire = NoWire
    /\ ended = "no"
    /\ result = "running"

Init ==
    /\ Start
    /\ unit = "lot"
    /\ wide = NoWide

(* ---- check_and_send_alert ----------------------------------------------- *)
(* mutant: the threshold itself already alerts *)
ShouldAlert_AtThreshold(h, mint, alerted) ==
    /\ price_change_percentage(h) >= ALERT_THRESHOLD
    /\ mint \notin alerted

(* the condition under which check_and_send_alert calls send_alert *)
ShouldAlert(h, mint, alerted) ==
    /\ price_change_percentage(h) > ALERT_THRESHOLD
    /\ mint \notin alerted

(* mutant: the mint is recorded whatever send_alert returns *)
AfterSend_Always(alerted, mint, ok) == alerted \cup {mint}

(* mutant: a delivered alert resets the set to its mint *)
AfterSend_Only(alerted, mint, ok) == IF ok THEN {mint} ELSE alerted

(* the set after send_alert has returned Ok (ok) or Err *)
AfterSend(alerted, mint, ok) == IF ok THEN alerted \cup {mint} ELSE alerted

(* ---- the dust predicates -------------------------------------------------- *)
(* update_holdings, sell branch: holding.amount < MIN_HOLDING_AMOUNT *)
SellDust(h) == RawLess(h.amount, MIN_HOLDING_AMOUNT)

(* update_price and print_holdings: amount as f64 / 1e6 < MIN_HOLDING_AMOUNT as f64 *)
RealDust(h) == FLt(ActualAmount(h.amount), FromInt(MIN_HOLDING_AMOUNT))

(* ---- stream dispatcher (start_monitoring, the message loop) --------------- *)
(* mutant: the loop goes on reading after it was left *)
Receive_AfterLeave ==
    /\ pc \in {"idle", "done"}
    /\ pc' = "scan"
    /\ scanned' = 0
    /\ own' = NoOwn
    /\ call' = NoCall
    /\ UNCHANGED <<program, tick, history>>
    /\ UNCHANGED line
    /\ UNCHANGED outer

Receive ==
    /\ pc = "idle"
    /\ pc' = "scan"
    /\ scanned' = 0
    /\ own' = NoOwn
    /\ call' = NoCall
    /\ UNCHANGED <<program, tick, history>>
    /\ UNCHANGED line
    /\ UNCHANGED outer

(* what decode_program_data returns for a trade: the mint, the direction,   *)
(* the token amount (in lots) and the lamport amount (in whole SOL)         *)
Event(mint, is_buy, token_amount, sol_amount) ==
    [mint |-> mint, is_buy |-> is_buy, token_amount |-> token_amount,
     sol_amount |-> sol_amount]

(* history bookkeeping of the scan: one more event of the watched wallet *)
Seen(seen, event) ==
    [last |-> event, replaced |-> seen.last \notin {None, event}]

(* a log line that carries no program data, or whose payload does not decode *)
ScanSkip ==
    /\ pc = "scan"
    /\ scanned < MaxLogs
    /\ scanned' = scanned + 1
    /\ UNCHANGED <<program, pc, own, call, tick, history>>
    /\ UNCHANGED line
    /\ UNCHANGED outer

(* a decoded event of the watched wallet: recorded, acted on after the scan *)
ScanOwn ==
    /\ pc = "scan"
    /\ scanned < MaxLogs
    /\ \E mint \in Mints, is_buy \in BOOLEAN :
       \E t \in Sizes(mint),
          p \in (IF is_buy THEN BuyPrices(mint) ELSE SellPrices(mint)) :
          /\ is_buy => AmountOf(mint) + t <= MaxAmount
          /\ own' = [found |-> TRUE, mint |-> mint, is_buy |-> is_buy,
                     token_amount |-> t, price |-> calculate_price(p * t, t)]
    /\ scanned' = scanned + 1
    /\ UNCHANGED <<program, pc, call, tick, history>>
    /\ UNCHANGED line
    /\ UNCHANGED outer

(* mutant: the first event of the watched wallet is kept *)
ScanOwnPriced_KeepFirst ==
    /\ pc = "scan"
    /\ scanned < MaxLogs
    /\ trades < MaxOwnTrades
    /\ \E is_buy \in BOOLEAN, t \in 0..MaxTrade, p \in 1..MaxPrice :
          /\ is_buy => AmountOf("T1") + t <= MaxPosition
          /\ own' = IF own.found THEN own
                    ELSE [found |-> TRUE, mint |-> "T1", is_buy |-> is_buy,
                          token_amount |-> t, price |-> calculate_price(p * t, t)]
          /\ ownSeen' = Seen(ownSeen, Event("T1", is_buy, t, p * t))
    /\ scanned' = scanned + 1
    /\ trades' = trades + 1
    /\ UNCHANGED <<program, pc, call, tick, posAlerts, posOk, oversold>>
    /\ UNCHANGED line
    /\ UNCHANGED outer

(* the same log line under the freely priced stream: the watched wallet     *)
(* trades T1 in every size at every price (the lamport amount is            *)
(* price * size), within a budget of MaxOwnTrades such trades; the stream   *)
(* keeps the history of the scan (ownSeen)                                  *)
ScanOwnPriced ==
    /\ pc = "scan"
    /\ scanned < MaxLogs
    /\ trades < MaxOwnTrades
    /\ \E is_buy \in BOOLEAN, t \in 0..MaxTrade, p \in 1..MaxPrice :
          /\ is_buy => AmountOf("T1") + t <= MaxPosition
          /\ own' = [found |-> TRUE, mint |-> "T1", is_buy |-> is_buy,
                     token_amount |-> t, price |-> calculate_price(p * t, t)]
          /\ ownSeen' = Seen(ownSeen, Event("T1", is_buy, t, p * t))
    /\ scanned' = scanned + 1
    /\ trades' = trades + 1
    /\ UNCHANGED <<program, pc, call, tick, posAlerts, posOk, oversold>>
    /\ UNCHANGED line
    /\ UNCHANGED outer

(* a decoded event of another trader: the holdings check comes next *)
ScanOther ==
    /\ pc = "scan"
    /\ scanned < MaxLogs
    /\ \E mint \in Mints :
       \E t \in Sizes(mint), p \in OtherPrices(mint) :
          call' = [mint |-> mint, is_buy |-> FALSE, token_amount |-> 0,
                   price |-> calculate_price(p * t, t)]
    /\ scanned' = scanned + 1
    /\ pc' = "check_held"
    /\ UNCHANGED <<program, own, tick, history>>
    /\ UNCHANGED line
    /\ UNCHANGED outer

(* mutant: update_price is called without the contains_key test *)
CheckHeld_Always ==
    /\ pc = "check_held"
    /\ holdings_lock = "free"
    /\ pc' = "up_lock_h"
    /\ UNCHANGED <<program, scanned, own, call, tick, history>>
    /\ UNCHANGED line
    /\ UNCHANGED outer

(* holdings.lock().await; contains_key; the guard is dropped either way *)
CheckHeld ==
    /\ pc = "check_held"
    /\ holdings_lock = "free"
    /\ IF Held(call.mint)
       THEN pc' = "up_lock_h" /\ UNCHANGED call
       ELSE pc' = "scan" /\ call' = NoCall
    /\ UNCHANGED <<program, scanned, own, tick, history>>
    /\ UNCHANGED line
    /\ UNCHANGED outer

(* the log list is exhausted *)
ScanEnd ==
    /\ pc = "scan"
    /\ IF own.found
       THEN /\ pc' = "uh_lock_h"
            /\ call' = [mint |-> own.mint, is_buy |-> own.is_buy,
                        token_amount |-> own.token_amount, price |-> own.price]
       ELSE /\ pc' = "idle"
            /\ call' = NoCall
    /\ own' = NoOwn
    /\ scanned' = 0
    /\ UNCHANGED <<program, tick, history>>
    /\ UNCHANGED line
    /\ UNCHANGED outer

(* ---- the log lines as the sender writes them ------------------------------ *)
(* the base64 text (with padding) of a byte sequence *)
Base64Encode(bytes) ==
    LET n == Len(bytes)
        B(i) == IF i <= n THEN bytes[i] ELSE 0
        Char(j) ==
            LET g == (j - 1) \div 4
                k == (j - 1) % 4
                b1 == B(3 * g + 1)
                b2 == B(3 * g + 2)
                b3 == B(3 * g + 3)
            IN  IF k = 0 THEN b1 \div 4
                ELSE IF k = 1 THEN (b1 % 4) * 16 + b2 \div 16
                ELSE IF k = 2
                THEN (IF 3 * g + 2 > n THEN PadChar ELSE (b2 % 16) * 4 + b3 \div 64)
                ELSE (IF 3 * g + 3 > n THEN PadChar ELSE b3 % 64)
    IN  [j \in 1..(4 * ((n + 2) \div 3)) |-> Char(j)]

(* the eight bytes of an amount below 2^31 *)
to_le_bytes(v) == [i \in 1..8 |-> IF i > 4 THEN 0 ELSE (v \div (256 ^ (i - 1))) % 256]

(* two account keys: one without and one with leading zero bytes *)
KeyA == [i \in 1..32 |-> i]
KeyB == [i \in 1..32 |-> IF i <= 2 THEN 0 ELSE 256 - i]

SolAmounts == {0, 1000000000, 16909060}
TokenAmounts == {0, 2000000, 258}
Flags == {0, 1, 2}
Lengths == {0, 3} \cup ((MIN_EVENT_LEN - 2)..(MIN_EVENT_LEN + MaxExtra))
Damages == {"none", "bad_char", "cut", "no_padding"}

(* an event of the program, cut or extended to len bytes; pad fills the     *)
(* event identifier and everything after the trader                        *)
Payload(len, pad, mint, user, sol_amount, token_amount, flag) ==
    LET sol == to_le_bytes(sol_amount)
        tok == to_le_bytes(token_amount)
    IN  [i \in 1..len |->
            IF i <= 8 THEN pad
            ELSE IF i <= 40 THEN mint[i - 8]
            ELSE IF i <= 48 THEN sol[i - 40]
            ELSE IF i <= 56 THEN tok[i - 48]
            ELSE IF i = 57 THEN flag
            ELSE IF i <= 89 THEN user[i - 57]
            ELSE pad]

(* a text damaged in transit: a character outside the alphabet, the last    *)
(* character lost, or the padding lost                                      *)
Damage(text, how) ==
    IF how = "bad_char"
    THEN (IF text = <<>> THEN <<BadChar>> ELSE [text EXCEPT ![1] = BadChar])
    ELSE IF how = "cut"
    THEN (IF text = <<>> THEN <<0>> ELSE SubSeq(text, 1, Len(text) - 1))
    ELSE IF how = "no_padding" THEN SelectSeq(text, LAMBDA c : c # PadChar)
    ELSE text

(* whether the damage leaves a text that is not the base64 of any bytes *)
IsDamaged(bytes, how) ==
    how \in {"bad_char", "cut"} \/ (how = "no_padding" /\ Len(bytes) % 3 # 0)

(* ---- the scan of one log line, at the level of its text -------------------- *)
(* a "Program data: " line: its payload is decoded *)
ScanData ==
    /\ pc = "scan"
    /\ scanned < MaxLogs
    /\ \E len \in Lengths, pad \in {0, 255}, keys \in {<<KeyA, KeyB>>, <<KeyB, KeyA>>},
          sol_amount \in SolAmounts, token_amount \in TokenAmounts,
          flag \in Flags, how \in Damages :
          LET bytes == Payload(len, pad, keys[1], keys[2], sol_amount,
                               token_amount, flag)
              text == Damage(Base64Encode(bytes), how)
          IN  /\ data_str' = text
              /\ decoded' = decode_program_data(text)
              /\ wire' = [bytes |-> bytes, damaged |-> IsDamaged(bytes, how),
                          sol_amount |-> sol_amount, token_amount |-> token_amount]
    /\ pc' = "data"
    /\ UNCHANGED <<program, scanned, own, call, tick, history, trade_price>>
    /\ UNCHANGED outer

(* decode_program_data returned None: the line is passed over *)
ScanNone ==
    /\ pc = "data"
    /\ decoded = None
    /\ pc' = "scan"
    /\ scanned' = scanned + 1
    /\ data_str' = <<>>
    /\ wire' = NoWire
    /\ UNCHANGED <<program, own, call, tick, history, decoded, trade_price>>
    /\ UNCHANGED outer

(* decode_program_data returned an event: its price is calculated *)
ScanSome ==
    /\ pc = "data"
    /\ decoded # None
    /\ trade_price' = calculate_price_u64(decoded.sol_amount, decoded.token_amount)
    /\ pc' = "priced"
    /\ UNCHANGED <<program, scanned, own, call, tick, history, data_str, decoded,
                   wire>>
    /\ UNCHANGED outer

(* the event is handed on by its trader (ScanOwn, ScanOther) and the scan   *)
(* goes to the next line                                                   *)
ScanPriced ==
    /\ pc = "priced"
    /\ pc' = "scan"
    /\ scanned' = scanned + 1
    /\ data_str' = <<>>
    /\ decoded' = None
    /\ trade_price' = Zero
    /\ wire' = NoWire
    /\ UNCHANGED <<program, own, call, tick, history>>
    /\ UNCHANGED outer

(* ---- update_holdings ------------------------------------------------------ *)
(* u64::saturating_add; a sum within MaxAmount lots is far below 2^64 *)
saturating_add(a, b) == a + b

(* mutant: the absolute difference instead of saturation at 0 *)
saturating_sub_AbsDiff(a, b) == IF b > a THEN b - a ELSE a - b

saturating_sub(a, b) == IF b > a THEN 0 ELSE a - b

(* ---- the same two operations on the full width of a u64 ----------------- *)
(* A full-width u64 is the sequence of its four 16-bit limbs, least         *)
(* significant first.                                                       *)
LimbBase == 65536
U64_MAX == <<LimbBase - 1, LimbBase - 1, LimbBase - 1, LimbBase - 1>>
U64_MIN == <<0, 0, 0, 0>>

(* limbs i..4 of a + b + carry, and the carry out of the most significant *)
RECURSIVE AddFrom(_, _, _, _)
AddFrom(a, b, i, carry) ==
    IF i > 4 THEN [limbs |-> <<>>, carry |-> carry]
    ELSE LET t == a[i] + b[i] + carry
             rest == AddFrom(a, b, i + 1, t \div LimbBase)
         IN  [limbs |-> <<t % LimbBase>> \o rest.limbs, carry |-> rest.carry]

(* limbs i..4 of a - b - borrow, and the borrow out of the most significant *)
RECURSIVE SubFrom(_, _, _, _)
SubFrom(a, b, i, borrow) ==
    IF i > 4 THEN [limbs |-> <<>>, borrow |-> borrow]
    ELSE LET t == a[i] - b[i] - borrow
             rest == SubFrom(a, b, i + 1, IF t < 0 THEN 1 ELSE 0)
         IN  [limbs |-> <<(t + LimbBase) % LimbBase>> \o rest.limbs,
              borrow |-> rest.borrow]

(* mutant: u64::wrapping_add *)
saturating_add_u64_Wrapping(a, b) == AddFrom(a, b, 1, 0).limbs

(* u64::saturating_add: the sum, or u64::MAX when it overflows *)
saturating_add_u64(a, b) ==
    LET r == AddFrom(a, b, 1, 0)
    IN  IF r.carry # 0 THEN U64_MAX ELSE r.limbs

(* u64::saturating_sub: the difference, or 0 when it underflows *)
saturating_sub_u64(a, b) ==
    LET r == SubFrom(a, b, 1, 0)
    IN  IF r.borrow # 0 THEN U64_MIN ELSE r.limbs

(* The operands: a number k * 2^63 + off with k in 0..2 and a small off,    *)
(* that is a number near 0, near 2^63 or near 2^64.                         *)
Near ==
    {[k |-> 0, off |-> i] : i \in 0..MaxNear}
        \cup {[k |-> 1, off |-> i] : i \in 0..MaxNear}
        \cup {[k |-> 2, off |-> -1 - i] : i \in 0..MaxNear}

(* the limbs of such a number within 0 .. 2^64 - 1 *)
ToU64(x) ==
    IF x.k = 0 THEN <<x.off, 0, 0, 0>>
    ELSE IF x.k = 1 /\ x.off >= 0 THEN <<x.off, 0, 0, LimbBase \div 2>>
    ELSE IF x.k = 1
         THEN <<LimbBase + x.off, LimbBase - 1, LimbBase - 1, LimbBase \div 2 - 1>>
    ELSE <<LimbBase + x.off, LimbBase - 1, LimbBase - 1, LimbBase - 1>>

(* `holding.amount = holding.amount.saturating_add(token_amount)` *)
WideBuy ==
    /\ wide.op = "input"
    /\ wide' = [wide EXCEPT !.op = "buy",
                            !.amount = saturating_add_u64(ToU64(wide.old),
                                                          ToU64(wide.arg))]
    /\ UNCHANGED <<program, pc, scanned, own, call, tick, history>>
    /\ UNCHANGED line
    /\ UNCHANGED <<ended, result, unit>>

(* `holding.amount = holding.amount.saturating_sub(token_amount)` *)
WideSell ==
    /\ wide.op = "input"
    /\ wide' = [wide EXCEPT !.op = "sell",
                            !.amount = saturating_sub_u64(ToU64(wide.old),
                                                          ToU64(wide.arg))]
    /\ UNCHANGED <<program, pc, scanned, own, call, tick, history>>
    /\ UNCHANGED line
    /\ UNCHANGED <<ended, result, unit>>

(* mutant: a buy replaces the accumulated cost *)
BuyInto_Replace(h, token_amount, price) ==
    [amount |-> saturating_add(h.amount, token_amount),
     total_cost |-> FMul(ActualAmount(token_amount), price),
     current_price |-> price]

(* the buy branch on the entry (an absent one is TokenHolding::new(mint, 0, price)) *)
(* mutant: a buy leaves the current price as it was *)
BuyInto_KeepMark(h, token_amount, price) ==
    [amount |-> saturating_add(h.amount, token_amount),
     total_cost |-> FAdd(h.total_cost, FMul(ActualAmount(token_amount), price)),
     current_price |-> h.current_price]

BuyInto(h, token_amount, price) ==
    [amount |-> saturating_add(h.amount, token_amount),
     total_cost |-> FAdd(h.total_cost, FMul(ActualAmount(token_amount), price)),
     current_price |-> price]

(* mutant: a sell leaves the accumulated cost as it was *)
SellFrom_KeepCost(h, token_amount, price) ==
    [amount |-> saturating_sub(h.amount, token_amount),
     total_cost |-> h.total_cost,
     current_price |-> price]

(* the sell branch on an existing holding *)
SellFrom(h, token_amount, price) ==
    LET sell_ratio == FDiv(FromInt(token_amount), FromInt(h.amount))
    IN  [amount |-> saturating_sub(h.amount, token_amount),
         total_cost |-> FMul(h.total_cost, FSub(FromInt(1), sell_ratio)),
         current_price |-> price]

UHLockHoldings ==
    /\ pc = "uh_lock_h"
    /\ holdings_lock = "free"
    /\ holdings_lock' = "consumer"
    /\ pc' = "uh_lock_a"
    /\ ownSeen' = NoneSeen
    /\ UNCHANGED <<holdings, alerted_mints, alerted_lock, scanned, own, call, tick,
                   posAlerts, posOk, oversold, trades>>
    /\ UNCHANGED line
    /\ UNCHANGED outer

UHLockAlerted ==
    /\ pc = "uh_lock_a"
    /\ alerted_lock = "free"
    /\ alerted_lock' = "consumer"
    /\ pc' = "uh_body"
    /\ UNCHANGED <<holdings, alerted_mints, holdings_lock, scanned, own, call, tick,
                   history>>
    /\ UNCHANGED line
    /\ UNCHANGED outer

(* mutant: the lookup of the sell branch inserts a missing entry *)
get_mut_OrInsert(ledger, mint) ==
    IF ledger[mint] = NoHolding THEN TokenHolding_new(0, Zero) ELSE ledger[mint]

(* holdings.get_mut(&mint): the entry, or None; nothing is inserted *)
get_mut(ledger, mint) == ledger[mint]

(* the in-memory changes of either branch and the alert check, up to the   *)
(* await of send_alert (if any)                                            *)
UHBody ==
    /\ pc = "uh_body"
    /\ LET m == call.mint
           cur == get_mut(holdings, m)
           h == IF call.is_buy
                THEN BuyInto(IF Held(m) THEN holdings[m]
                                        ELSE TokenHolding_new(0, call.price),
                             call.token_amount, call.price)
                ELSE SellFrom(cur, call.token_amount, call.price)
       IN  IF call.is_buy \/ cur # NoHolding
           THEN /\ holdings' = [holdings EXCEPT ![m] = h]
                /\ oversold' = (~call.is_buy /\ call.token_amount > cur.amount)
                /\ IF ShouldAlert(h, m, alerted_mints)
                   THEN /\ pc' = "uh_send"
                        /\ posAlerts' = [posAlerts EXCEPT ![m] = Bump(@)]
                   ELSE /\ pc' = "uh_fin"
                        /\ UNCHANGED posAlerts
                /\ UNCHANGED <<holdings_lock, alerted_lock, call>>
           ELSE /\ pc' = "idle"
                /\ holdings_lock' = "free"
                /\ alerted_lock' = "free"
                /\ call' = NoCall
                /\ UNCHANGED <<holdings, posAlerts, oversold>>
    /\ UNCHANGED <<alerted_mints, scanned, own, tick, posOk, trades, ownSeen>>
    /\ UNCHANGED line
    /\ UNCHANGED outer

(* send_alert returns *)
UHSend ==
    /\ pc = "uh_send"
    /\ \E ok \in BOOLEAN :
          /\ alerted_mints' = AfterSend(alerted_mints, call.mint, ok)
          /\ posOk' = [posOk EXCEPT ![call.mint] = IF ok THEN Bump(@) ELSE @]
    /\ pc' = "uh_fin"
    /\ UNCHANGED <<holdings, holdings_lock, alerted_lock, scanned, own, call, tick,
                   posAlerts, oversold, trades, ownSeen>>
    /\ UNCHANGED line
    /\ UNCHANGED outer

(* whether update_holdings removes the holding it has just changed *)
UHRemoves(is_buy, h) == ~is_buy /\ SellDust(h)

(* the rest of the branch: the position-closed check of a sell, then both  *)
(* guards are dropped                                                      *)
UHFin ==
    /\ pc = "uh_fin"
    /\ LET m == call.mint
       IN  IF UHRemoves(call.is_buy, holdings[m])
           THEN /\ holdings' = [holdings EXCEPT ![m] = NoHolding]
                /\ alerted_mints' = alerted_mints \ {m}
                /\ posAlerts' = Forget(posAlerts, {m})
                /\ posOk' = Forget(posOk, {m})
           ELSE UNCHANGED <<holdings, alerted_mints, posAlerts, posOk>>
    /\ holdings_lock' = "free"
    /\ alerted_lock' = "free"
    /\ pc' = "idle"
    /\ call' = NoCall
    /\ oversold' = FALSE
    /\ UNCHANGED <<scanned, own, tick, trades, ownSeen>>
    /\ UNCHANGED line
    /\ UNCHANGED outer

(* ---- update_price --------------------------------------------------------- *)
(* mutant: update_price takes the alerted_mints lock first *)
UPLockHoldings_AlertedFirst ==
    /\ pc = "up_lock_h"
    /\ alerted_lock = "free"
    /\ alerted_lock' = "consumer"
    /\ pc' = "up_lock_a"
    /\ UNCHANGED <<holdings, alerted_mints, holdings_lock, scanned, own, call, tick,
                   history>>
    /\ UNCHANGED line
    /\ UNCHANGED outer

UPLockHoldings ==
    /\ pc = "up_lock_h"
    /\ holdings_lock = "free"
    /\ holdings_lock' = "consumer"
    /\ pc' = "up_lock_a"
    /\ UNCHANGED <<holdings, alerted_mints, alerted_lock, scanned, own, call, tick,
                   history>>
    /\ UNCHANGED line
    /\ UNCHANGED outer

UPLockAlerted ==
    /\ pc = "up_lock_a"
    /\ alerted_lock = "free"
    /\ alerted_lock' = "consumer"
    /\ pc' = "up_body"
    /\ UNCHANGED <<holdings, alerted_mints, holdings_lock, scanned, own, call, tick,
                   history>>
    /\ UNCHANGED line
    /\ UNCHANGED outer

(* mutant: a zero price is handled like any other price *)
UPSkips_NoHolding(price, held) == ~held

(* whether update_price returns before touching the holding: zero price,   *)
(* or no holding                                                           *)
UPSkips(price, held) == FEq(price, Zero) \/ ~held

(* whether update_price removes the holding instead of updating it *)
UPRemoves(h) == RealDust(h)

(* mutant: the new price also becomes the cost basis *)
set_current_price_Rebase(h, price) ==
    [h EXCEPT !.current_price = price,
              !.total_cost = FMul(ActualAmount(h.amount), price)]

(* `holding.current_price = price` *)
set_current_price(h, price) == [h EXCEPT !.current_price = price]

(* mutant: a missing entry is read as a fresh position *)
get_OrDefault(ledger, mint) ==
    IF ledger[mint] = NoHolding THEN TokenHolding_new(MaxAmount, Zero)
    ELSE ledger[mint]

(* `holdings.get(mint)` / `holdings.get_mut(mint)`: the entry or NoHolding *)
get(ledger, mint) == ledger[mint]

UPBody ==
    /\ pc = "up_body"
    /\ LET m == call.mint
           cur == get(holdings, m)
       IN  IF UPSkips(call.price, cur # NoHolding)
           THEN /\ pc' = "scan"
                /\ holdings_lock' = "free"
                /\ alerted_lock' = "free"
                /\ call' = NoCall
                /\ UNCHANGED <<holdings, alerted_mints, history>>
           ELSE IF UPRemoves(cur)
           THEN /\ holdings' = [holdings EXCEPT ![m] = NoHolding]
                /\ alerted_mints' = alerted_mints \ {m}
                /\ posAlerts' = Forget(posAlerts, {m})
                /\ posOk' = Forget(posOk, {m})
                /\ pc' = "scan"
                /\ holdings_lock' = "free"
                /\ alerted_lock' = "free"
                /\ call' = NoCall
                /\ UNCHANGED oversold
           ELSE LET h == set_current_price(cur, call.price)
                IN  /\ holdings' = [holdings EXCEPT ![m] = h]
                    /\ IF ShouldAlert(h, m, alerted_mints)
                       THEN /\ pc' = "up_send"
                            /\ posAlerts' = [posAlerts EXCEPT ![m] = Bump(@)]
                       ELSE /\ pc' = "up_fin"
                            /\ UNCHANGED posAlerts
                    /\ UNCHANGED <<alerted_mints, holdings_lock, alerted_lock,
                                   posOk, oversold, call>>
    /\ UNCHANGED <<scanned, own, tick, trades, ownSeen>>
    /\ UNCHANGED line
    /\ UNCHANGED outer

UPSend ==
    /\ pc = "up_send"
    /\ \E ok \in BOOLEAN :
          /\ alerted_mints' = AfterSend(alerted_mints, call.mint, ok)
          /\ posOk' = [posOk EXCEPT ![call.mint] = IF ok THEN Bump(@) ELSE @]
    /\ pc' = "up_fin"
    /\ UNCHANGED <<holdings, holdings_lock, alerted_lock, scanned, own, call, tick,
                   posAlerts, oversold, trades, ownSeen>>
    /\ UNCHANGED line
    /\ UNCHANGED outer

(* the second check of real_amount (taken before the price was set), then  *)
(* both guards are dropped                                                 *)
UPFin ==
    /\ pc = "up_fin"
    /\ LET m == call.mint
       IN  IF RealDust(holdings[m])
           THEN /\ holdings' = [holdings EXCEPT ![m] = NoHolding]
                /\ alerted_mints' = alerted_mints \ {m}
                /\ posAlerts' = Forget(posAlerts, {m})
                /\ posOk' = Forget(posOk, {m})
           ELSE UNCHANGED <<holdings, alerted_mints, posAlerts, posOk>>
    /\ holdings_lock' = "free"
    /\ alerted_lock' = "free"
    /\ pc' = "scan"
    /\ call' = NoCall
    /\ UNCHANGED <<scanned, own, tick, oversold, trades, ownSeen>>
    /\ UNCHANGED line
    /\ UNCHANGED outer

(* ---- the periodic task ---------------------------------------------------- *)
(* the alerted_mints the tick's WalletMonitor is built with *)
TickAlertedSet(consumer_set) == {}

(* interval.tick() fires and the WalletMonitor of this tick is built *)
Tick ==
    /\ tick_pc = "sleep"
    /\ tick_pc' = "lock_h"
    /\ tick_alerted' = TickAlertedSet(alerted_mints)
    /\ tick_lock' = "free"
    /\ UNCHANGED <<program, pc, scanned, own, call, history>>
    /\ UNCHANGED line
    /\ UNCHANGED outer

(* mutant: print_holdings goes on without the holdings guard being free *)
PHLockHoldings_NoWait ==
    /\ tick_pc = "lock_h"
    /\ holdings_lock' = "periodic"
    /\ tick_pc' = "lock_a"
    /\ UNCHANGED <<holdings, alerted_mints, alerted_lock, pc, scanned, own, call,
                   tick_alerted, tick_lock, history>>
    /\ UNCHANGED line
    /\ UNCHANGED outer

PHLockHoldings ==
    /\ tick_pc = "lock_h"
    /\ holdings_lock = "free"
    /\ holdings_lock' = "periodic"
    /\ tick_pc' = "lock_a"
    /\ UNCHANGED <<holdings, alerted_mints, alerted_lock, pc, scanned, own, call,
                   tick_alerted, tick_lock, history>>
    /\ UNCHANGED line
    /\ UNCHANGED outer

PHLockAlerted ==
    /\ tick_pc = "lock_a"
    /\ tick_lock = "free"
    /\ tick_lock' = "periodic"
    /\ tick_pc' = "body"
    /\ UNCHANGED <<program, pc, scanned, own, call, tick_alerted, history>>
    /\ UNCHANGED line
    /\ UNCHANGED outer

(* print_holdings: to_remove, the removals, the guards dropped *)
PrintHoldings ==
    /\ tick_pc = "body"
    /\ LET to_remove == {m \in Mints : Held(m) /\ RealDust(holdings[m])}
       IN  /\ holdings' = [m \in Mints |->
                              IF m \in to_remove THEN NoHolding ELSE holdings[m]]
           /\ tick_alerted' = tick_alerted \ to_remove
           /\ posAlerts' = Forget(posAlerts, to_remove)
           /\ posOk' = Forget(posOk, to_remove)
    /\ holdings_lock' = "free"
    /\ tick_lock' = "free"
    /\ tick_pc' = "sleep"
    /\ UNCHANGED <<alerted_mints, alerted_lock, pc, scanned, own, call, oversold,
                   trades, ownSeen>>
    /\ UNCHANGED line
    /\ UNCHANGED outer

(* ---- specification -------------------------------------------------------- *)
(* ---- the end of the message loop ---------------------------------------- *)
(* what `read.next().await` yields when it is not a text frame; the loop    *)
(* asks for the next message only between two notifications                *)
(* Ok(Message::Close(_)): break, then the function's final Ok(()) *)
RecvClose ==
    /\ pc = "idle"
    /\ pc' = "done"
    /\ ended' = "close"
    /\ result' = "Ok"
    /\ UNCHANGED <<program, scanned, own, call, tick, history>>
    /\ UNCHANGED line
    /\ UNCHANGED <<unit, wide>>

(* Err(e): error!(..), break, then the same final Ok(()) *)
RecvErr ==
    /\ pc = "idle"
    /\ pc' = "done"
    /\ ended' = "error"
    /\ result' = "Ok"
    /\ UNCHANGED <<program, scanned, own, call, tick, history>>
    /\ UNCHANGED line
    /\ UNCHANGED <<unit, wide>>

(* the stream yields no further item: the while-let ends, then Ok(()) *)
RecvNone ==
    /\ pc = "idle"
    /\ pc' = "done"
    /\ ended' = "end"
    /\ result' = "Ok"
    /\ UNCHANGED <<program, scanned, own, call, tick, history>>
    /\ UNCHANGED line
    /\ UNCHANGED <<unit, wide>>

(* Ok(Message::Ping(_)) whose `write.send(Message::Pong(..)).await?` fails *)
RecvPing ==
    /\ pc = "idle"
    /\ pc' = "done"
    /\ ended' = "pong"
    /\ result' = "Err"
    /\ UNCHANGED <<program, scanned, own, call, tick, history>>
    /\ UNCHANGED line
    /\ UNCHANGED <<unit, wide>>

Next ==
    \/ Receive
    \/ ScanSkip
    \/ ScanOwn
    \/ ScanOther
    \/ CheckHeld
    \/ ScanEnd
    \/ UHLockHoldings
    \/ UHLockAlerted
    \/ UHBody
    \/ UHSend
    \/ UHFin
    \/ UPLockHoldings
    \/ UPLockAlerted
    \/ UPBody
    \/ UPSend
    \/ UPFin
    \/ Tick
    \/ PHLockHoldings
    \/ PHLockAlerted
    \/ PrintHoldings

Spec == Init /\ [][Next]_vars

(* the consumer task alone on the freely priced stream of own trades *)
NextLedger ==
    \/ Receive
    \/ ScanSkip
    \/ ScanOwnPriced
    \/ ScanOther
    \/ CheckHeld
    \/ ScanEnd
    \/ UHLockHoldings
    \/ UHLockAlerted
    \/ UHBody
    \/ UHSend
    \/ UHFin
    \/ UPLockHoldings
    \/ UPLockAlerted
    \/ UPBody
    \/ UPSend
    \/ UPFin

SpecLedger == Init /\ [][NextLedger]_vars

(* the scan of the log lines at the level of their texts *)
NextDecode ==
    \/ Receive
    \/ ScanData
    \/ ScanNone
    \/ ScanSome
    \/ ScanPriced
    \/ ScanEnd

SpecDecode == Init /\ [][NextDecode]_vars

(* the program on a stream of trades of a few thousand raw units: every     *)
(* position is below the display threshold, so update_price never gets to  *)
(* its alert check                                                         *)
InitGrain ==
    /\ Start
    /\ unit = "grain"
    /\ wide = NoWide

NextGrain ==
    \/ Receive
    \/ ScanSkip
    \/ ScanOwn
    \/ ScanOther
    \/ CheckHeld
    \/ ScanEnd
    \/ UHLockHoldings
    \/ UHLockAlerted
    \/ UHBody
    \/ UHSend
    \/ UHFin
    \/ UPLockHoldings
    \/ UPLockAlerted
    \/ UPBody
    \/ Tick
    \/ PHLockHoldings
    \/ PHLockAlerted
    \/ PrintHoldings

SpecGrain == InitGrain /\ [][NextGrain]_vars

(* the two amount updates of update_holdings on full-width operands *)
InitWide ==
    /\ Start
    /\ unit = "lot"
    /\ wide \in {[op |-> "input", old |-> x, arg |-> y, amount |-> U64_MIN] :
                    x \in Near, y \in Near}

NextWide ==
    \/ WideBuy
    \/ WideSell

SpecWide == InitWide /\ [][NextWide]_vars

(* the program on a stream that can end *)
NextStream ==
    \/ Next
    \/ RecvClose
    \/ RecvErr
    \/ RecvNone
    \/ RecvPing

SpecStream == Init /\ [][NextStream]_vars

(* ---- claims --------------------------------------------------------------- *)
Gain(m) == price_change_percentage(holdings[m])
HeldIn(ledger, m) == ledger[m] # NoHolding
Sending == pc \in {"uh_send", "up_send"}

(* C1: alert exactly once, with re-arming.  Whenever the ledger lock is    *)
(* free and an open position stands above the threshold (its last update   *)
(* left it there, so in particular after each of three consecutive such    *)
(* updates), an alert has been handed to the notifier for that position    *)
(* since it was opened (a reopened position alerts again), and exactly one *)
(* unless the notifier rejected one.                                       *)
C1_AlertOncePerPosition ==
    \A m \in Mints :
        (holdings_lock = "free" /\ Held(m) /\ Gain(m) > ALERT_THRESHOLD)
            => /\ posAlerts[m] >= 1
               /\ (posAlerts[m] = posOk[m] => posAlerts[m] = 1)

(* C2: whenever no task holds the ledger lock, every mint of the           *)
(* consumer's alerted_mints has a position in the ledger.                  *)
C2_AlertedWithinLedger ==
    holdings_lock = "free" => alerted_mints \subseteq {m \in Mints : Held(m)}

(* C3: while a send_alert call is pending, neither the ledger lock nor the *)
(* alerted_mints lock is held.                                             *)
C3_NoLockAcrossSend ==
    Sending => (holdings_lock = "free" /\ alerted_lock = "free")

(* C4: dust closure.  When update_holdings returns, or update_price with a *)
(* nonzero price returns, the ledger holds no position of the call's mint  *)
(* whose display amount is below MIN_HOLDING_AMOUNT, and a position the    *)
(* call removed has left alerted_mints too.                                *)
C4_DustClosure ==
    [][ ( \/ (pc \in {"uh_body", "uh_fin"} /\ pc' = "idle")
          \/ (pc \in {"up_body", "up_fin"} /\ pc' = "scan"
                 /\ ~FEq(call.price, Zero)) )
        => LET m == call.mint
           IN  /\ HeldIn(holdings', m) => ~RealDust(holdings'[m])
               /\ (Held(m) /\ ~HeldIn(holdings', m)) => m \notin alerted_mints' ]_vars

(* C5: whenever the ledger lock is free, no position of the ledger has     *)
(* amount 0.                                                               *)
C5_NoZeroPosition ==
    holdings_lock = "free" => \A m \in Mints : Held(m) => holdings[m].amount # 0

(* C6: total_cost of a position is never below zero, in any state, the     *)
(* state between the changes of a sell and its position-closed check       *)
(* included.                                                               *)
C6_CostNonNegative ==
    \A m \in Mints : Held(m) => ~FLt(holdings[m].total_cost, Zero)

(* C7: oversell.  A sell of more than the holding's amount hands nothing   *)
(* to the notifier, and when it returns the position is gone from the      *)
(* ledger and its mint from alerted_mints, every other position and every  *)
(* other mint's membership being as before.                                *)
OthersKept(m) ==
    \A o \in Mints \ {m} :
        /\ holdings'[o] = holdings[o]
        /\ (o \in alerted_mints') = (o \in alerted_mints)

C7_Oversell ==
    [][ LET m == call.mint
        IN  /\ ( pc = "uh_body" /\ pc' # pc /\ ~call.is_buy /\ Held(m)
                    /\ call.token_amount > holdings[m].amount )
                  => (pc' = "uh_fin" /\ OthersKept(m))
            /\ (pc = "uh_fin" /\ pc' # pc /\ oversold)
                  => /\ pc' = "idle"
                     /\ ~HeldIn(holdings', m)
                     /\ m \notin alerted_mints'
                     /\ OthersKept(m) ]_vars

(* C7 witness: an oversell of a position that has alerted is about to      *)
(* return while the other token is held.                                   *)
C7_Witness ==
    /\ pc = "uh_fin"
    /\ oversold
    /\ call.mint \in alerted_mints
    /\ \E o \in Mints \ {call.mint} : Held(o)

(* C8: lock order and no deadlock.  A task holds an alerted_mints lock     *)
(* only while it holds the ledger lock (the ledger lock is taken first),   *)
(* and the two tasks never wait for each other.                            *)
ConsumerWaitsOn ==
    IF pc \in {"check_held", "uh_lock_h", "up_lock_h"} THEN holdings_lock
    ELSE IF pc \in {"uh_lock_a", "up_lock_a"} THEN alerted_lock
    ELSE "free"

PeriodicWaitsOn ==
    IF tick_pc = "lock_h" THEN holdings_lock
    ELSE IF tick_pc = "lock_a" THEN tick_lock
    ELSE "free"

C8_LockOrder ==
    /\ alerted_lock = "consumer" => holdings_lock = "consumer"
    /\ tick_lock = "periodic" => holdings_lock = "periodic"
    /\ alerted_lock # "periodic" /\ tick_lock # "consumer"
    /\ ~(ConsumerWaitsOn = "periodic" /\ PeriodicWaitsOn = "consumer")

(* C8 witness: the consumer waits for the ledger lock while the periodic   *)
(* task holds both of its locks.                                           *)
C8_Witness ==
    /\ pc \in {"uh_lock_h", "up_lock_h"}
    /\ holdings_lock = "periodic"
    /\ tick_lock = "periodic"

Checks(m) ==
    \/ pc = "uh_body" /\ (call.is_buy \/ Held(m))
    \/ pc = "up_body" /\ ~UPSkips(call.price, Held(m)) /\ ~UPRemoves(holdings[m])

C10_AlertGate ==
    [][ LET m == call.mint
        IN  /\ (Checks(m) /\ pc' # pc)
                  => /\ (pc' \in {"uh_send", "up_send"})
                            = ( /\ price_change_percentage(holdings'[m]) > 100
                                /\ m \notin alerted_mints )
                     /\ alerted_mints' = alerted_mints
            /\ (Sending /\ pc' # pc)
                  => /\ alerted_mints \subseteq alerted_mints'
                     /\ alerted_mints' \subseteq alerted_mints \cup {m} ]_vars

(* C10 witness: the check has passed a position standing at exactly 100    *)
(* percent, armed, without calling send_alert.                             *)
C10_Witness ==
    /\ pc = "up_fin"
    /\ Gain(call.mint) = 100
    /\ call.mint \notin alerted_mints
    /\ posAlerts[call.mint] = 0

(* C11: first buy.  A buy of A at price P for a mint without a position     *)
(* creates a position with amount A, avg_price P and current_price P, and   *)
(* the rest of update_holdings leaves that position as it is.              *)
C11_FirstBuy ==
    [][ LET m == call.mint
        IN  /\ (pc = "uh_body" /\ call.is_buy /\ ~Held(m))
                  => /\ HeldIn(holdings', m)
                     /\ holdings'[m].amount = call.token_amount
                     /\ FEq(avg_price(holdings'[m]), call.price)
                     /\ FEq(holdings'[m].current_price, call.price)
            /\ (pc \in {"uh_send", "uh_fin"} /\ call.is_buy)
                  => holdings' = holdings ]_vars

(* C11 witness: the first own trade of the stream, a buy of two lots at    *)
(* the highest price, is about to return.                                  *)
C11_Witness ==
    /\ pc = "uh_fin"
    /\ trades = 1
    /\ call.is_buy
    /\ call.token_amount = 2
    /\ call.price = calculate_price(MaxPrice * 2, 2)
    /\ Held(call.mint)

(* C12: weighted average cost.  A buy of A2 at P2 into a position of       *)
(* amount A1 and avg_price P1 (what a buy of A1 at P1 leaves, by C11)      *)
(* gives amount A1 + A2 and avg_price (A1*P1 + A2*P2) / (A1 + A2); when    *)
(* A1 + A2 is 0 the quotient is undefined and avg_price is 0.              *)
C12_WeightedAverage ==
    [][ LET m == call.mint
            h == holdings[m]
            n == holdings'[m]
            A1 == ActualAmount(h.amount)
            P1 == avg_price(h)
            A2 == ActualAmount(call.token_amount)
            P2 == call.price
        IN  (pc = "uh_body" /\ call.is_buy /\ Held(m))
               => /\ n.amount = h.amount + call.token_amount
                  /\ n.amount > 0
                        => FEq(avg_price(n),
                               FDiv(FAdd(FMul(A1, P1), FMul(A2, P2)), FAdd(A1, A2)))
                  /\ n.amount = 0 => FEq(avg_price(n), Zero) ]_vars

(* C12 witness: one lot bought at price 1, then two lots at price 3, and   *)
(* nothing else: three lots at 7/3 per lot.                                *)
C12_Witness ==
    /\ pc = "uh_fin"
    /\ trades = 2
    /\ call.is_buy
    /\ call.token_amount = 2
    /\ Held("T1")
    /\ holdings["T1"].amount = 3
    /\ avg_price(holdings["T1"]) = F(7, 3 * LotSize)

(* C13: proportional sell.  A sell of exactly half of a position whose     *)
(* half is not below MIN_HOLDING_AMOUNT leaves half the amount and half    *)
(* the total_cost; any sell that leaves a nonzero amount leaves avg_price  *)
(* as it was; and a position that a sell does not remove is the one the    *)
(* sell left, with a nonzero amount.                                       *)
C13_ProportionalSell ==
    [][ LET m == call.mint
            h == holdings[m]
            n == holdings'[m]
        IN  /\ (pc = "uh_body" /\ ~call.is_buy /\ Held(m))
                  => /\ ( /\ 2 * call.token_amount = h.amount
                          /\ ~RealDust([h EXCEPT !.amount = call.token_amount]) )
                        => /\ n.amount = call.token_amount
                           /\ FEq(FMul(n.total_cost, FromInt(2)), h.total_cost)
                           /\ FEq(avg_price(n), avg_price(h))
                     /\ n.amount > 0 => FEq(avg_price(n), avg_price(h))
            /\ (pc = "uh_send" /\ ~call.is_buy) => holdings' = holdings
            /\ (pc = "uh_fin" /\ ~call.is_buy /\ HeldIn(holdings', m))
                  => (holdings' = holdings /\ h.amount > 0) ]_vars

(* C13 witness: two lots are sold out of four bought at two prices (three  *)
(* halves per lot on average), and two lots are left.                      *)
C13_Witness ==
    /\ pc = "uh_fin"
    /\ ~call.is_buy
    /\ call.token_amount = 2
    /\ Held("T1")
    /\ holdings["T1"].amount = 2
    /\ avg_price(holdings["T1"]) = F(3, 2 * LotSize)

(* C14: zero price.  update_price called with price 0 returns without      *)
(* changing the ledger or alerted_mints and without an alert check or a    *)
(* send_alert call, whatever the position's amount.                        *)
C14_ZeroPriceNoOp ==
    [][ ( /\ pc \in {"up_lock_h", "up_lock_a", "up_body"}
          /\ pc' # pc
          /\ FEq(call.price, Zero) )
        => /\ holdings' = holdings
           /\ alerted_mints' = alerted_mints
           /\ posAlerts' = posAlerts
           /\ pc = "up_body" => pc' = "scan" ]_vars

(* C14 witness: update_price runs with price 0 on a position below         *)
(* MIN_HOLDING_AMOUNT tokens whose mint is in alerted_mints.               *)
C14_Witness ==
    /\ pc = "up_body"
    /\ FEq(call.price, Zero)
    /\ Held(call.mint)
    /\ RealDust(holdings[call.mint])
    /\ call.mint \in alerted_mints

(* C15: unknown token.  A sell by update_holdings, or an update_price, for *)
(* a mint without a position returns without changing the ledger or        *)
(* alerted_mints, without creating a position, without an alert check and  *)
(* without a send_alert call.                                              *)
C15_UnknownTokenNoOp ==
    [][ LET m == call.mint
        IN  /\ (pc = "uh_body" /\ pc' # pc /\ ~call.is_buy /\ ~Held(m))
                  => /\ pc' = "idle"
                     /\ holdings' = holdings
                     /\ alerted_mints' = alerted_mints
                     /\ posAlerts' = posAlerts
            /\ (pc = "up_body" /\ pc' # pc /\ ~Held(m))
                  => /\ pc' = "scan"
                     /\ holdings' = holdings
                     /\ alerted_mints' = alerted_mints
                     /\ posAlerts' = posAlerts ]_vars

(* C15 witness: update_price runs with a nonzero price for a mint whose    *)
(* position the periodic task removed after the dispatcher's check, the    *)
(* mint still being in alerted_mints.                                      *)
C15_Witness ==
    /\ pc = "up_body"
    /\ ~Held(call.mint)
    /\ ~FEq(call.price, Zero)
    /\ call.mint \in alerted_mints

(* C16: one own trade per notification.  When the scan of a notification   *)
(* ends, update_holdings is not called if no scanned line was an event of  *)
(* the watched wallet, and is otherwise called with the mint, direction,   *)
(* amount and price of the last such line; update_holdings is entered only *)
(* there, and when it returns the notification is finished.                *)
InUpdateHoldings(p) == p \in {"uh_lock_h", "uh_lock_a", "uh_body", "uh_send", "uh_fin"}

C16_LastOwnTrade ==
    [][ /\ (pc = "scan" /\ pc' \notin {"scan", "check_held"})
              => IF ownSeen.last = None
                 THEN pc' = "idle"
                 ELSE LET e == ownSeen.last
                      IN  /\ pc' = "uh_lock_h"
                          /\ call' = [mint |-> e.mint, is_buy |-> e.is_buy,
                                      token_amount |-> e.token_amount,
                                      price |-> calculate_price(e.sol_amount,
                                                                e.token_amount)]
        /\ (InUpdateHoldings(pc') /\ ~InUpdateHoldings(pc)) => pc = "scan"
        /\ (InUpdateHoldings(pc) /\ ~InUpdateHoldings(pc')) => pc' = "idle" ]_vars

(* C16 witness: update_holdings is being called for an event of the        *)
(* watched wallet that came after a different one in the same              *)
(* notification.                                                           *)
C16_Witness ==
    /\ pc = "uh_lock_h"
    /\ ownSeen.replaced
    /\ call.mint = ownSeen.last.mint
    /\ call.token_amount = ownSeen.last.token_amount

(* C17: price propagation.  For a decoded event of another trader,         *)
(* update_price is called for the event's mint and price if and only if    *)
(* the ledger has a position of that mint when the dispatcher tests it;    *)
(* the test changes nothing, an event of a mint without a position changes *)
(* nothing, update_price is entered only from that test, and the own trade *)
(* recorded by the scan is kept throughout and still applied afterwards.   *)
InUpdatePrice(p) == p \in {"up_lock_h", "up_lock_a", "up_body", "up_send", "up_fin"}

C17_PricePropagation ==
    [][ /\ (pc = "check_held" /\ pc' # pc)
              => /\ IF Held(call.mint)
                    THEN pc' = "up_lock_h" /\ call' = call
                    ELSE pc' = "scan"
                 /\ holdings' = holdings
                 /\ alerted_mints' = alerted_mints
                 /\ posAlerts' = posAlerts
        /\ (InUpdatePrice(pc') /\ ~InUpdatePrice(pc)) => pc = "check_held"
        /\ (InUpdatePrice(pc) /\ ~InUpdatePrice(pc')) => pc' = "scan"
        /\ (pc = "check_held" \/ InUpdatePrice(pc))
              => (own' = own /\ ownSeen' = ownSeen) ]_vars

(* C17 witness: update_price is being called for a held mint in a          *)
(* notification in which an event of the watched wallet came first.        *)
C17_Witness ==
    /\ pc = "up_lock_h"
    /\ own.found
    /\ Held(call.mint)
    /\ ~FEq(call.price, Zero)

(* C18: decode failures are absorbed.  For a payload text that is not      *)
(* valid base64, or that is the base64 of fewer than 129 bytes,            *)
(* decode_program_data returns None; on None the scan goes on to the next  *)
(* line with the ledger, alerted_mints and the recorded own trade as they  *)
(* were, and nothing is called.                                            *)
C18_DecodeFailureAbsorbed ==
    /\ [](pc = "data" /\ (wire.damaged \/ Len(wire.bytes) < 129) => decoded = None)
    /\ [][ (pc = "data" /\ decoded = None)
           => /\ pc' = "scan"
              /\ scanned' = scanned + 1
              /\ holdings' = holdings
              /\ alerted_mints' = alerted_mints
              /\ own' = own
              /\ call' = call ]_vars

(* C18 witness: the second line of a notification carries a full event     *)
(* whose text was damaged, and the decoder has returned None.              *)
C18_Witness ==
    /\ pc = "data"
    /\ scanned = 1
    /\ wire.damaged
    /\ Len(wire.bytes) >= 129
    /\ decoded = None

(* C19: the layout.  For an undamaged text of a payload of 128 bytes or    *)
(* fewer the decoder returns None; for one of 129 bytes or more it returns *)
(* the base58 of bytes [8,40) as mint, the amounts the sender wrote        *)
(* little-endian into bytes [40,48) and [48,56), byte 56 # 0 as is_buy and *)
(* the base58 of bytes [57,89) as user (offset k is element k + 1 of the   *)
(* sequence); no other byte enters the result.                             *)
C19_DecoderLayout ==
    (pc = "data" /\ ~wire.damaged)
        => LET b == wire.bytes
           IN  IF Len(b) <= 128 THEN decoded = None
               ELSE decoded = [mint |-> bs58_encode(SubSeq(b, 9, 40)),
                               sol_amount |-> wire.sol_amount,
                               token_amount |-> wire.token_amount,
                               is_buy |-> (b[57] # 0),
                               user |-> bs58_encode(SubSeq(b, 58, 89))]

(* C19 witness: a payload of 130 bytes with 255 in the event identifier    *)
(* and after the trader, a direction byte of 2 and a trader key with two   *)
(* leading zero bytes has been decoded.                                    *)
C19_Witness ==
    /\ pc = "data"
    /\ ~wire.damaged
    /\ Len(wire.bytes) = 130
    /\ wire.bytes[1] = 255
    /\ wire.bytes[57] = 2
    /\ decoded # None
    /\ decoded.is_buy
    /\ decoded.sol_amount = 16909060
    /\ decoded.user[1] = 0 /\ decoded.user[2] = 0 /\ decoded.user[3] # 0

(* C20: the derived price.  The price calculated for a decoded event is    *)
(* (sol_amount / 10^9) / (token_amount / 10^6), that is                    *)
(* sol_amount / (1000 * token_amount), and 0 when token_amount is 0; for   *)
(* 1_000_000_000 lamports and 2_000_000 token units it is 1/2.             *)
C20_DerivedPrice ==
    pc = "priced"
        => LET q == decoded.sol_amount
               b == decoded.token_amount
           IN  /\ b = 0 => trade_price = Zero
               /\ b # 0 => trade_price = F(q, 1000 * b)
               /\ (q = 1000000000 /\ b = 2000000) => trade_price = F(1, 2)

(* C20 witness: the price of 1_000_000_000 lamports for 2_000_000 token    *)
(* units has been calculated.                                              *)
C20_Witness ==
    /\ pc = "priced"
    /\ decoded.sol_amount = 1000000000
    /\ decoded.token_amount = 2000000
    /\ trade_price = F(1, 2)

(* ---- C21 ------------------------------------------------------------------ *)
(* C21: when the upstream stream yields a transport error, start_monitoring  *)
(* ends with an error outcome returned to its caller, distinguishable from   *)
(* the outcome of a normal close.                                            *)
C21_ErrorPropagated ==
    ended = "error" => result = "Err"

(* ---- C22 ------------------------------------------------------------------ *)
(* C22: once the stream has delivered a Close frame, an error or its end,   *)
(* the consumer task has terminated and stays terminated: from then on the  *)
(* ledger, the alerted set and the alert history change only by the         *)
(* periodic task removing a position below the display threshold, which it  *)
(* remains able to do.                                                      *)
C22_ConsumerStops ==
    /\ [](ended \in {"close", "error", "end"} => pc = "done")
    /\ [][pc = "done" =>
            /\ pc' = "done"
            /\ UNCHANGED <<alerted_mints, alerted_lock, scanned, own, call,
                           ended, result>>
            /\ \A m \in Mints : posAlerts'[m] <= posAlerts[m]
            /\ \A m \in Mints :
                   \/ holdings'[m] = holdings[m]
                   \/ /\ ~HeldIn(holdings', m)
                      /\ tick_pc = "body"
                      /\ RealDust(holdings[m])]_vars

(* the periodic task is inside print_holdings, about to prune, after the   *)
(* consumer has terminated                                                 *)
C22_Witness ==
    /\ pc = "done"
    /\ ended \in {"close", "error", "end"}
    /\ tick_pc = "body"
    /\ \E m \in Mints : Held(m) /\ RealDust(holdings[m])

(* ---- C23 ------------------------------------------------------------------ *)
(* k * 2^63 + off as a pair, its order, and the two bounds of a u64 *)
PairLess(x, y) == x.k < y.k \/ (x.k = y.k /\ x.off < y.off)
PairMax == [k |-> 2, off |-> -1]
PairMin == [k |-> 0, off |-> 0]

(* C23: the amount is updated with saturating 64-bit arithmetic: after a    *)
(* buy it is min(old + token_amount, 2^64 - 1), after a sell it is          *)
(* max(old - token_amount, 0); it never wraps around modulo 2^64.           *)
C23_SaturatingAmount ==
    /\ wide.op = "buy" =>
          LET sum == [k |-> wide.old.k + wide.arg.k,
                      off |-> wide.old.off + wide.arg.off]
          IN  wide.amount = ToU64(IF PairLess(PairMax, sum) THEN PairMax ELSE sum)
    /\ wide.op = "sell" =>
          LET diff == [k |-> wide.old.k - wide.arg.k,
                       off |-> wide.old.off - wide.arg.off]
          IN  wide.amount = ToU64(IF PairLess(diff, PairMin) THEN PairMin ELSE diff)

(* a buy whose sum exceeds 2^64 - 1 has saturated *)
C23_Witness ==
    /\ wide.op = "buy"
    /\ PairLess(PairMax, [k |-> wide.old.k + wide.arg.k,
                          off |-> wide.old.off + wide.arg.off])
    /\ wide.old.k = 2
    /\ wide.arg.k = 0
    /\ wide.amount = U64_MAX

(* ---- C24 ------------------------------------------------------------------ *)
(* C24: update_price and the periodic task apply the dust predicate of a    *)
(* sell: a position that the predicate of a sell judges not dust (one a     *)
(* sell has just retained) is removed neither by update_price nor by the    *)
(* tick.                                                                    *)
C24_SameDustPredicate ==
    [][(pc = "up_body" /\ pc' # pc) \/ (tick_pc = "body" /\ tick_pc' # tick_pc) =>
         \A m \in Mints :
            (Held(m) /\ ~SellDust(holdings[m])) => HeldIn(holdings', m)]_vars

(* ---- C25 ------------------------------------------------------------------ *)
(* C25: update_price with a nonzero price on a held position that is not    *)
(* dust sets current_price to the given price and leaves amount and         *)
(* total_cost, hence avg_price, as they were, up to its return.             *)
C25_MarkOnly ==
    [][ LET m == call.mint
        IN  /\ ( /\ pc = "up_body" /\ pc' # pc
                 /\ Held(m)
                 /\ ~FEq(call.price, Zero)
                 /\ ~RealDust(holdings[m]) )
                  => /\ HeldIn(holdings', m)
                     /\ holdings'[m].current_price = call.price
                     /\ holdings'[m].amount = holdings[m].amount
                     /\ holdings'[m].total_cost = holdings[m].total_cost
                     /\ avg_price(holdings'[m]) = avg_price(holdings[m])
                     /\ pc' \in {"up_send", "up_fin"}
            /\ (pc \in {"up_send", "up_fin"} /\ pc' # pc)
                  => holdings' = holdings ]_vars

(* update_price has moved the price of a position away from its average *)
C25_Witness ==
    /\ pc = "up_fin"
    /\ Held(call.mint)
    /\ holdings[call.mint].current_price = call.price
    /\ ~FEq(avg_price(holdings[call.mint]), call.price)
    /\ FLt(Zero, avg_price(holdings[call.mint]))

(* ---- C26 ------------------------------------------------------------------ *)
(* C26: update_holdings and update_price for a mint change only that mint's *)
(* position and membership of alerted_mints: at every step of either, every *)
(* other mint's position and membership are as before and no alert is       *)
(* handed to the notifier for it.                                           *)
C26_OtherTokensKept ==
    [][ ((InUpdateHoldings(pc) \/ InUpdatePrice(pc)) /\ pc' # pc)
          => /\ OthersKept(call.mint)
             /\ \A o \in Mints \ {call.mint} : posAlerts'[o] = posAlerts[o] ]_vars

(* an alert for one mint has been delivered while another mint is held and *)
(* in alerted_mints                                                        *)
C26_Witness ==
    /\ pc \in {"uh_fin", "up_fin"}
    /\ call.mint \in alerted_mints
    /\ posOk[call.mint] > 0
    /\ \E o \in Mints \ {call.mint} : Held(o) /\ o \in alerted_mints

(* ---- C27 ------------------------------------------------------------------ *)
(* C27: no alert is handed to the notifier for a position that the same     *)
(* operation removes: while update_holdings or update_price awaits          *)
(* send_alert, the position is not one that the operation's dust check      *)
(* removes when the call returns.                                           *)
C27_NoAlertOnClose ==
    /\ (pc = "uh_send" /\ ~call.is_buy) => ~SellDust(holdings[call.mint])
    /\ pc = "up_send" => ~RealDust(holdings[call.mint])

(* ---- C28 ------------------------------------------------------------------ *)
(* C28: the periodic task hands no alert to the notifier and changes no     *)
(* field of a position it retains; its only effect on the ledger is the     *)
(* removal of positions below the display threshold, and it holds the       *)
(* ledger lock from before its first look at the ledger to its return, so   *)
(* that it is never inside print_holdings while the consumer is inside the  *)
(* locked part of update_holdings or update_price.                          *)
C28_PeriodicOnlyPrunes ==
    /\ [](tick_pc \in {"lock_a", "body"} <=> holdings_lock = "periodic")
    /\ [](holdings_lock = "periodic" =>
             pc \notin {"uh_lock_a", "uh_body", "uh_send", "uh_fin",
                        "up_lock_a", "up_body", "up_send", "up_fin"})
    /\ [][tick_pc' # tick_pc =>
            /\ \A m \in Mints : posAlerts'[m] <= posAlerts[m]
            /\ \A m \in Mints :
                   \/ holdings'[m] = holdings[m]
                   \/ /\ tick_pc = "body"
                      /\ Held(m)
                      /\ RealDust(holdings[m])
                      /\ ~HeldIn(holdings', m)]_vars

(* print_holdings is about to remove one position and retain another whose *)
(* gain is above the threshold, while the consumer waits for the ledger    *)
(* lock                                                                    *)
C28_Witness ==
    /\ tick_pc = "body"
    /\ pc \in {"uh_lock_h", "up_lock_h"}
    /\ \E m \in Mints : Held(m) /\ RealDust(holdings[m])
    /\ \E m \in Mints : /\ Held(m)
                        /\ ~RealDust(holdings[m])
                        /\ Gain(m) > ALERT_THRESHOLD

(* ---- C29 ------------------------------------------------------------------ *)
(* C29: within one notification every update_price of a third-party event   *)
(* is applied before the update_holdings of the own trade, whatever the     *)
(* order of the log lines: once update_holdings has started, the            *)
(* notification applies no update_price and scans no further line, and     *)
(* when it returns with the traded mint's position open, the current_price  *)
(* of that position is the price of the own trade.                          *)
C29_OwnTradeLast ==
    [][ /\ (InUpdatePrice(pc) \/ pc = "check_held") => ~InUpdateHoldings(pc')
        /\ InUpdateHoldings(pc) => (InUpdateHoldings(pc') \/ pc' = "idle")
        /\ (pc = "scan" /\ InUpdateHoldings(pc')) =>
               (own.found /\ call'.mint = own.mint /\ call'.price = own.price)
        /\ (InUpdateHoldings(pc) /\ pc' = "idle" /\ HeldIn(holdings', call.mint))
              => holdings'[call.mint].current_price = call.price ]_vars

(* a third-party event for the mint of the own trade, on a line after the  *)
(* own sell's and at another price, has been applied to the position       *)
(* before the sell, which leaves the position open                         *)
C29_Witness ==
    /\ pc = "up_fin"
    /\ own.found
    /\ ~own.is_buy
    /\ own.mint = call.mint
    /\ own.token_amount > 0
    /\ ~FEq(own.price, call.price)
    /\ Held(call.mint)
    /\ own.token_amount < holdings[call.mint].amount
    /\ holdings[call.mint].current_price = call.price

(* ---- C30 ------------------------------------------------------------------ *)
(* C30: the dispatcher's check that the ledger holds a mint and the         *)
(* update_price that follows are two critical sections: the ledger lock is  *)
(* not the consumer's between them, so the periodic task can remove the     *)
(* position there.  Whenever update_price then finds no position, no step   *)
(* of it puts one into the ledger, changes alerted_mints or hands an alert  *)
(* to the notifier, and it returns to the scan.                             *)
C30_CheckThenAct ==
    /\ [](pc \in {"check_held", "up_lock_h"} => holdings_lock # "consumer")
    /\ [][ /\ (pc = "check_held" /\ pc' = "up_lock_h") => Held(call.mint)
           /\ (InUpdatePrice(pc) /\ pc' # pc /\ ~Held(call.mint))
                 => /\ holdings' = holdings
                    /\ alerted_mints' = alerted_mints
                    /\ posAlerts' = posAlerts
                    /\ pc' \in {"up_lock_a", "up_body", "scan"} ]_vars

(* update_price has both locks and a nonzero price for a mint that the     *)
(* periodic task, now asleep again, removed after the dispatcher's check   *)
C30_Witness ==
    /\ pc = "up_body"
    /\ ~FEq(call.price, Zero)
    /\ ~Held(call.mint)
    /\ tick_pc = "sleep"
    /\ holdings_lock = "consumer"

====
